---- MODULE Spec2Model ----
(***************************************************************************)
(* A model of database.py: TransPair (a pair of sentences), TransList (a   *)
(* list of TransPair objects) and TransDatabase (a dict of named           *)
(* TransLists with an info record, saved to and loaded from JSON).         *)
(*                                                                         *)
(* Python values are tagged tuples <<type, payload>>, so that a str, an    *)
(* int and None are never equal to one another, as in Python.  TransPair   *)
(* objects live in a heap and are held by reference: a TransList is a      *)
(* sequence of references, and mutating a pair is seen through every list  *)
(* that holds it.                                                          *)
(***************************************************************************)
EXTENDS Integers, Sequences, FiniteSets, TLC

VARIABLES heap, tlist, last, db, info, file

vars == <<heap, tlist, last, db, info, file>>

(* ------------------------------ bounds --------------------------------- *)

\* TransPair objects ever constructed in one behaviour.
MaxPairs == 2
\* Length of the iterable handed to TransList.extend and TransList(*args).
MaxArgs == 2

(* --------------------------- Python values ----------------------------- *)

S(s) == <<"str", s>>
I(n) == <<"int", n>>
NoneV == <<"NoneType", "">>
Ref(id) == <<"TransPair", id>>

isinstance_str(v) == v[1] = "str"

isinstance_TransPair(v) == v[1] = "TransPair"

\* Python truthiness: "" , 0 and None are falsy.
Truthy(v) ==
    CASE v[1] = "str" -> v[2] /= ""
      [] v[1] = "int" -> v[2] /= "0"
      [] v[1] = "NoneType" -> FALSE
      [] OTHER -> TRUE

\* x and y
PyAnd(x, y) == IF Truthy(x) THEN y ELSE x

\* str(v)
PyStr(v) ==
    CASE v[1] = "str" -> v
      [] v[1] = "int" -> S(v[2])
      [] OTHER -> S("None")

\* A zero-based Python index, negative ones counted from the end.
PyIndex(i, n) == IF i < 0 THEN i + n ELSE i

\* Sentences a caller may hand to TransPair: a non-empty string, the empty
\* string, a falsy and a truthy int.
Values == {S("a"), S(""), I("0"), I("5")}

\* Sentences of the TransPairs a TransList is exercised with.
StrValues == {S("a"), S("b")}

(* ------------------------------ TransPair ------------------------------ *)

\* TransPair.__init__: the outcome and the [item0, item1] stored.
TransPair_init(item0, item1) ==
    IF ~isinstance_str(item0) /\ ~isinstance_str(item1)
    THEN [err |-> "TypeError", data |-> <<>>]
    ELSE IF PyAnd(item0, item1) = S("")
    THEN [err |-> "ValueError", data |-> <<>>]
    ELSE [err |-> "none", data |-> <<item0, item1>>]

\* TransPair.__setitem__ on the stored list `data`.
TransPair_setitem(data, key, value) ==
    IF ~isinstance_str(value)
    THEN [err |-> "TypeError", data |-> data]
    ELSE IF value[2] = ""
    THEN [err |-> "ValueError", data |-> data]
    ELSE IF PyIndex(key, Len(data)) \notin 0..(Len(data) - 1)
    THEN [err |-> "IndexError", data |-> data]
    ELSE [err |-> "none",
          data |-> [data EXCEPT ![PyIndex(key, Len(data)) + 1] = value]]

\* TransPair.switch: list.reverse() of the stored list.
TransPair_switch(data) == [i \in 1..Len(data) |-> data[Len(data) + 1 - i]]

(* ------------------------------ TransList ------------------------------ *)

\* x == y for the objects a TransList meets: two TransPairs compare their
\* stored lists (UserList.__eq__), anything else compares as itself.
PyEq(h, x, y) ==
    IF isinstance_TransPair(x) /\ isinstance_TransPair(y)
    THEN h[x[2]] = h[y[2]]
    ELSE x = y

\* UserList.__contains__
Contains(l, h, x) == \E i \in 1..Len(l) : PyEq(h, Ref(l[i]), x)

\* append with the membership test by identity (is) instead of ==.
TransList_append_identity(l, h, tp_key) ==
    IF ~isinstance_TransPair(tp_key)
    THEN [err |-> "TypeError", data |-> l]
    ELSE IF \E i \in 1..Len(l) : l[i] = tp_key[2]
    THEN [err |-> "KeyError", data |-> l]
    ELSE [err |-> "none", data |-> Append(l, tp_key[2])]

\* TransList.append
TransList_append(l, h, tp_key) ==
    IF ~isinstance_TransPair(tp_key)
    THEN [err |-> "TypeError", data |-> l]
    ELSE IF Contains(l, h, tp_key)
    THEN [err |-> "KeyError", data |-> l]
    ELSE [err |-> "none", data |-> Append(l, tp_key[2])]

\* list.insert(i, x): the position is clamped to 0..len.
ListInsert(l, i, x) ==
    LET n == Len(l)
        j == IF PyIndex(i, n) < 0 THEN 0
             ELSE IF PyIndex(i, n) > n THEN n ELSE PyIndex(i, n)
    IN SubSeq(l, 1, j) \o <<x>> \o SubSeq(l, j + 1, n)

\* TransList.insert
TransList_insert(l, h, i, tp_key) ==
    IF ~isinstance_TransPair(tp_key)
    THEN [err |-> "KeyError", data |-> l]
    ELSE IF Contains(l, h, tp_key)
    THEN [err |-> "KeyError", data |-> l]
    ELSE [err |-> "none", data |-> ListInsert(l, i, tp_key[2])]

\* TransList.extend: one append per element, stopping at the first that
\* raises; the elements appended before it stay.
RECURSIVE TransList_extend(_, _, _)
TransList_extend(l, h, other) ==
    IF other = <<>>
    THEN [err |-> "none", data |-> l]
    ELSE LET r == TransList_append(l, h, Head(other))
         IN IF r.err /= "none" THEN r
            ELSE TransList_extend(r.data, h, Tail(other))

\* TransList.__init__(*args)
TransList_init(h, args) == TransList_extend(<<>>, h, args)

\* The position (from 1) of the first element equal to x, 0 if none.
FirstEqual(l, h, x) ==
    IF Contains(l, h, x)
    THEN CHOOSE i \in 1..Len(l) :
            /\ PyEq(h, Ref(l[i]), x)
            /\ \A j \in 1..(i - 1) : ~PyEq(h, Ref(l[j]), x)
    ELSE 0

RemoveAt(l, i) == SubSeq(l, 1, i - 1) \o SubSeq(l, i + 1, Len(l))

\* TransList.remove
TransList_remove(l, h, tp_key) ==
    IF FirstEqual(l, h, tp_key) = 0
    THEN [err |-> "ValueError", data |-> l]
    ELSE [err |-> "none", data |-> RemoveAt(l, FirstEqual(l, h, tp_key))]

\* TransList.pop: the element is removed and the method returns nothing.
TransList_pop(l, index) ==
    IF PyIndex(index, Len(l)) \notin 0..(Len(l) - 1)
    THEN [err |-> "IndexError", data |-> l, ret |-> NoneV]
    ELSE [err |-> "none", data |-> RemoveAt(l, PyIndex(index, Len(l)) + 1),
          ret |-> NoneV]

\* One loop of get_translation: the counterpart of the first pair, from
\* position i on, whose element `side` is the sentence.
RECURSIVE ScanFrom(_, _, _, _, _)
ScanFrom(l, h, sentence, side, i) ==
    IF i > Len(l)
    THEN [found |-> FALSE, ret |-> NoneV]
    ELSE IF h[l[i]][side] = sentence
    THEN [found |-> TRUE, ret |-> h[l[i]][3 - side]]
    ELSE ScanFrom(l, h, sentence, side, i + 1)

Scan(l, h, sentence, side) == ScanFrom(l, h, sentence, side, 1)

\* get_translation with the two loops in the other order.
TransList_get_translation_second_first(l, h, sentence, hint) ==
    IF (hint = 0 \/ hint = 2) /\ Scan(l, h, sentence, 2).found
    THEN Scan(l, h, sentence, 2).ret
    ELSE IF (hint = 0 \/ hint = 1) /\ Scan(l, h, sentence, 1).found
    THEN Scan(l, h, sentence, 1).ret
    ELSE NoneV

\* TransList.get_translation
TransList_get_translation(l, h, sentence, hint) ==
    IF (hint = 0 \/ hint = 1) /\ Scan(l, h, sentence, 1).found
    THEN Scan(l, h, sentence, 1).ret
    ELSE IF (hint = 0 \/ hint = 2) /\ Scan(l, h, sentence, 2).found
    THEN Scan(l, h, sentence, 2).ret
    ELSE NoneV

(* ----------------------- the last call's record ------------------------ *)

\* What the last call was, how it ended (err = "none": it returned), what
\* it returned, and, for the calls whose effect is stated below, its
\* arguments and the TransList or the dict before it.
Call(op, err, ret, arg, arg2, idx, pre) ==
    [op |-> op, err |-> err, ret |-> ret, arg |-> arg, arg2 |-> arg2,
     idx |-> idx, pre |-> pre]

NoCall == Call("init", "none", NoneV, NoneV, NoneV, 0, <<>>)

SeqsUpTo(X, n) == UNION {[1..k -> X] : k \in 0..n}

Refs == {Ref(id) : id \in 1..Len(heap)}

\* Objects a caller may hand to a TransList method: the TransPairs built so
\* far and a str, which is no TransPair.
Objects == Refs \cup {S("a")}

\* Iterables a caller may hand to TransList(*args) and TransList.extend.
Iterables == SeqsUpTo(Refs, MaxArgs)

(* -------------------------- TransPair actions -------------------------- *)

\* TransPair(item0, item1)
NewTransPair(item0, item1) ==
    /\ Len(heap) < MaxPairs
    /\ LET r == TransPair_init(item0, item1)
       IN /\ heap' = IF r.err = "none" THEN Append(heap, r.data) ELSE heap
          /\ last' = Call("TransPair", r.err,
                          IF r.err = "none" THEN Ref(Len(heap) + 1) ELSE NoneV,
                          item0, item1, 0, <<>>)
    /\ UNCHANGED <<tlist, db, info, file>>

\* pair[key] = value
SetAt(id, key, value) ==
    /\ LET r == TransPair_setitem(heap[id], key, value)
       IN /\ heap' = [heap EXCEPT ![id] = r.data]
          /\ last' = Call("TransPair.setitem", r.err, NoneV, Ref(id), value, key, <<>>)
    /\ UNCHANGED <<tlist, db, info, file>>

\* pair.switch()
Switch(id) ==
    /\ heap' = [heap EXCEPT ![id] = TransPair_switch(heap[id])]
    /\ last' = Call("switch", "none", NoneV, Ref(id), NoneV, 0, <<>>)
    /\ UNCHANGED <<tlist, db, info, file>>

(* -------------------------- TransList actions -------------------------- *)

\* TransList(*args): the list under observation is the new one.
NewTransList(args) ==
    /\ LET r == TransList_init(heap, args)
       IN /\ tlist' = IF r.err = "none" THEN r.data ELSE tlist
          /\ last' = Call("TransList", r.err, NoneV, NoneV, NoneV, 0, <<>>)
    /\ UNCHANGED <<heap, db, info, file>>

ListAppend(x) ==
    /\ LET r == TransList_append(tlist, heap, x)
       IN /\ tlist' = r.data
          /\ last' = Call("append", r.err, NoneV, x, NoneV, 0, tlist)
    /\ UNCHANGED <<heap, db, info, file>>

ListInsertAt(i, x) ==
    /\ LET r == TransList_insert(tlist, heap, i, x)
       IN /\ tlist' = r.data
          /\ last' = Call("insert", r.err, NoneV, NoneV, NoneV, 0, <<>>)
    /\ UNCHANGED <<heap, db, info, file>>

ListExtend(other) ==
    /\ LET r == TransList_extend(tlist, heap, other)
       IN /\ tlist' = r.data
          /\ last' = Call("extend", r.err, NoneV, NoneV, NoneV, 0, <<>>)
    /\ UNCHANGED <<heap, db, info, file>>

ListRemove(x) ==
    /\ LET r == TransList_remove(tlist, heap, x)
       IN /\ tlist' = r.data
          /\ last' = Call("remove", r.err, NoneV, NoneV, NoneV, 0, <<>>)
    /\ UNCHANGED <<heap, db, info, file>>

ListPop(index) ==
    /\ LET r == TransList_pop(tlist, index)
       IN /\ tlist' = r.data
          /\ last' = Call("pop", r.err, r.ret, NoneV, NoneV, index, tlist)
    /\ UNCHANGED <<heap, db, info, file>>

ListGetTranslation(sentence, hint) ==
    /\ last' = Call("get_translation", "none",
                    TransList_get_translation(tlist, heap, sentence, hint),
                    sentence, NoneV, hint, tlist)
    /\ UNCHANGED <<heap, tlist, db, info, file>>

(* ---------------------------- TransDatabase ---------------------------- *)

INFO_TITLE == "info"

\* A TransList handed to or held by a TransDatabase, by value: the stored
\* lists [item0, item1] of its TransPairs, in order.
TL(rows) == <<"TransList", rows>>

isinstance_TransList(v) == v[1] = "TransList"

AB == <<S("a"), S("b")>>
BA == <<S("b"), S("a")>>

\* The position (from 1) of key in the dict d, 0 if it is no key.
KeyPos(d, key) ==
    IF \E i \in 1..Len(d) : d[i].name = key
    THEN CHOOSE i \in 1..Len(d) : d[i].name = key
    ELSE 0

\* dict.__setitem__: a present key keeps its position, a new one goes last.
DictSet(d, key, value) ==
    IF KeyPos(d, key) /= 0
    THEN [d EXCEPT ![KeyPos(d, key)] = [name |-> key, value |-> value]]
    ELSE Append(d, [name |-> key, value |-> value])

\* TransDatabase.__setitem__: the TypeError for a value that is no TransList
\* is built and dropped, not raised.
TransDatabase_setitem(d, trans_list_name, trans_list) ==
    IF ~isinstance_str(trans_list_name)
    THEN [err |-> "TypeError", data |-> d]
    ELSE IF ~isinstance_TransList(trans_list)
    THEN [err |-> "none", data |-> d]
    ELSE [err |-> "none", data |-> DictSet(d, trans_list_name[2], trans_list[2])]

\* TransDatabase.add: with no list given, the new TransList is bound to the
\* local name only.
TransDatabase_add(d, trans_list_name, trans_list) ==
    IF isinstance_str(trans_list_name) /\ KeyPos(d, trans_list_name[2]) /= 0
    THEN [err |-> "KeyError", data |-> d]
    ELSE IF trans_list = NoneV
    THEN [err |-> "none", data |-> d]
    ELSE TransDatabase_setitem(d, trans_list_name, trans_list)

\* TransDatabase.getbyindex
TransDatabase_getbyindex(d, index) ==
    IF index < 0 \/ index > Len(d)
    THEN [err |-> "IndexError", ret |-> NoneV]
    ELSE IF index + 1 \in 1..Len(d)
    THEN [err |-> "none", ret |-> TL(d[index + 1].value)]
    ELSE [err |-> "none", ret |-> NoneV]

\* TransDatabase.__chk_lang_attr
chk_lang_attr(fl, sl) ==
    IF PyStr(fl) = PyStr(sl)
    THEN [err |-> "ValueError", language |-> NoneV]
    ELSE [err |-> "none", language |-> <<"list", <<PyStr(fl), PyStr(sl)>>>>]

\* TransDatabase.change_lang_attrs: the new value is a TransPair.
TransDatabase_change_lang_attrs(inf, first_lang, second_lang) ==
    LET r == TransPair_init(first_lang, second_lang)
    IN IF r.err /= "none"
       THEN [err |-> r.err, info |-> inf]
       ELSE [err |-> "none",
             info |-> [inf EXCEPT !.language = <<"TransPair", r.data>>]]

\* The TransList the constructor builds from one raw list: a TransPair per
\* entry, appended as it is built; the first call that raises ends it.
RECURSIVE BuildFrom(_, _, _, _)
BuildFrom(decor_tlist, i, h, l) ==
    IF i > Len(decor_tlist)
    THEN [err |-> "none", rows |-> [k \in 1..Len(l) |-> h[l[k]]]]
    ELSE LET p == TransPair_init(decor_tlist[i][1], decor_tlist[i][2])
             a == TransList_append(l, Append(h, p.data), Ref(Len(h) + 1))
         IN IF p.err /= "none" THEN [err |-> p.err, rows |-> <<>>]
            ELSE IF a.err /= "none" THEN [err |-> a.err, rows |-> <<>>]
            ELSE BuildFrom(decor_tlist, i + 1, Append(h, p.data), a.data)

\* The loop of the constructor over the keyword arguments left once "info"
\* is popped: each list is built and then added under its name.
RECURSIVE AddAll(_, _, _)
AddAll(d, kwargs, i) ==
    IF i > Len(kwargs)
    THEN [err |-> "none", data |-> d]
    ELSE IF kwargs[i].name = INFO_TITLE
    THEN AddAll(d, kwargs, i + 1)
    ELSE LET t == BuildFrom(kwargs[i].value[2], 1, <<>>, <<>>)
             r == TransDatabase_add(d, S(kwargs[i].name), TL(t.rows))
         IN IF t.err /= "none" THEN [err |-> t.err, data |-> d]
            ELSE IF r.err /= "none" THEN r
            ELSE AddAll(r.data, kwargs, i + 1)

DefaultInfo(language) ==
    [language |-> language, creator |-> "Daniel Daninsky",
     script |-> "duobreaker v0.1"]

\* TransDatabase.__init__: kwargs is the ordered dict of keyword arguments,
\* a raw list <<"rows", ...>> per name and, from fromfile, <<"info", ...>>.
TransDatabase_init(first_lang, second_lang, kwargs) ==
    LET c == chk_lang_attr(first_lang, second_lang)
        r == AddAll(<<>>, kwargs, 1)
        hasInfo == KeyPos(kwargs, INFO_TITLE) /= 0
        inf == IF hasInfo
               THEN [kwargs[KeyPos(kwargs, INFO_TITLE)].value[2]
                        EXCEPT !.language = c.language]
               ELSE DefaultInfo(c.language)
    IN IF ~hasInfo /\ (first_lang = NoneV \/ second_lang = NoneV)
       THEN [err |-> "TypeError", data |-> <<>>, info |-> NoneV]
       ELSE IF c.err /= "none"
       THEN [err |-> c.err, data |-> <<>>, info |-> NoneV]
       ELSE IF r.err /= "none"
       THEN [err |-> r.err, data |-> <<>>, info |-> NoneV]
       ELSE [err |-> "none", data |-> r.data, info |-> inf]

\* std_dict of __json_save: a list of lists per name, in the dict's
\* order, then the info record under "info", which replaces a list of that
\* name.
StdDict(d, inf) ==
    DictSet([i \in 1..Len(d) |->
                [name |-> d[i].name, value |-> <<"rows", d[i].value>>]],
            INFO_TITLE, <<"info", inf>>)

\* TransDatabase.__json_save: what the file holds afterwards.  json.dump
\* has no encoding for a TransPair (a UserList): it raises TypeError with
\* the document half written.
TransDatabase_json_save(d, inf) ==
    IF inf.language[1] = "TransPair"
    THEN [err |-> "TypeError", content |-> <<"corrupt", <<>>>>]
    ELSE [err |-> "none", content |-> <<"json", StdDict(d, inf)>>]

\* TransDatabase.__json_load
TransDatabase_json_load(content) ==
    IF content[1] = "absent"
    THEN [err |-> "FileNotFoundError", kwargs |-> <<>>]
    ELSE IF content[1] = "corrupt"
    THEN [err |-> "JSONDecodeError", kwargs |-> <<>>]
    ELSE [err |-> "none", kwargs |-> content[2]]

\* TransDatabase.fromfile for a .json path
TransDatabase_fromfile(content) ==
    LET j == TransDatabase_json_load(content)
        lang == j.kwargs[KeyPos(j.kwargs, INFO_TITLE)].value[2].language[2]
    IN IF j.err /= "none"
       THEN [err |-> j.err, data |-> <<>>, info |-> NoneV]
       ELSE IF KeyPos(j.kwargs, INFO_TITLE) = 0
       THEN [err |-> "KeyError", data |-> <<>>, info |-> NoneV]
       ELSE TransDatabase_init(lang[1], lang[2], j.kwargs)

(* ------------------------ TransDatabase actions ------------------------ *)

\* Names a caller may use: two strings, one of them the info title, and
\* an int.
Names == {S("x"), S(INFO_TITLE), I("1")}

\* Values a caller may supply for a list: TransLists (an empty one and one
\* of two pairs), nothing, and an int.
ListArgs == {TL(<<>>), TL(<<AB, BA>>), NoneV, I("5")}

\* Language identifiers a caller may supply: a string and an int.
LangArgs == {S("EN"), I("1")}

\* Keyword arguments a caller may supply to the constructor.
KwArgs == {<<>>, <<[name |-> "x", value |-> <<"rows", <<AB, BA>>>>]>>}

\* TransDatabase(first_lang, second_lang, **kwargs): the database under
\* observation is the new one.
DbConstruct(first_lang, second_lang, kwargs) ==
    /\ LET r == TransDatabase_init(first_lang, second_lang, kwargs)
       IN /\ db' = IF r.err = "none" THEN r.data ELSE db
          /\ info' = IF r.err = "none" THEN r.info ELSE info
          /\ last' = Call("TransDatabase", r.err, NoneV, first_lang,
                          second_lang, 0, <<>>)
    /\ UNCHANGED <<heap, tlist, file>>

\* db[name] = value
DbSetItem(name, value) ==
    /\ LET r == TransDatabase_setitem(db, name, value)
       IN /\ db' = r.data
          /\ last' = Call("TransDatabase.setitem", r.err, NoneV, name, value, 0, db)
    /\ UNCHANGED <<heap, tlist, info, file>>

\* db.add(name, value), db.add(name) when value is None
DbAdd(name, value) ==
    /\ LET r == TransDatabase_add(db, name, value)
       IN /\ db' = r.data
          /\ last' = Call("add", r.err, NoneV, name, value, 0, db)
    /\ UNCHANGED <<heap, tlist, info, file>>

DbGetByIndex(index) ==
    /\ LET r == TransDatabase_getbyindex(db, index)
       IN last' = Call("getbyindex", r.err, r.ret, NoneV, NoneV, index, <<>>)
    /\ UNCHANGED <<heap, tlist, db, info, file>>

DbChangeLangAttrs(first_lang, second_lang) ==
    /\ LET r == TransDatabase_change_lang_attrs(info, first_lang, second_lang)
       IN /\ info' = r.info
          /\ last' = Call("change_lang_attrs", r.err, NoneV, first_lang,
                          second_lang, 0, <<>>)
    /\ UNCHANGED <<heap, tlist, db, file>>

\* db.save(path) for a .json path; a file that was written whole
\* remembers the database it was written from.
DbSave ==
    /\ LET r == TransDatabase_json_save(db, info)
       IN /\ file' = IF r.err = "none"
                     THEN [content |-> r.content, db |-> db, info |-> info]
                     ELSE [content |-> r.content, db |-> <<>>, info |-> NoneV]
          /\ last' = Call("save", r.err, NoneV, NoneV, NoneV, 0, <<>>)
    /\ UNCHANGED <<heap, tlist, db, info>>

\* TransDatabase.fromfile(path) for the same path: the database under
\* observation is the loaded one.
DbFromFile ==
    /\ LET r == TransDatabase_fromfile(file.content)
       IN /\ db' = IF r.err = "none" THEN r.data ELSE db
          /\ info' = IF r.err = "none" THEN r.info ELSE info
          /\ last' = Call("fromfile", r.err, NoneV, NoneV, NoneV, 0, <<>>)
    /\ UNCHANGED <<heap, tlist, file>>

(* --------------------------- specifications ---------------------------- *)

NoFile == [content |-> <<"absent", <<>>>>, db |-> <<>>, info |-> NoneV]

\* No TransPair yet, an empty TransList, the TransDatabase("EN", 1).
Init ==
    /\ heap = <<>>
    /\ tlist = <<>>
    /\ last = NoCall
    /\ db = <<>>
    /\ info = TransDatabase_init(S("EN"), I("1"), <<>>).info
    /\ file = NoFile

\* TransPair alone, over every kind of value.
NextPair ==
    \/ \E item0 \in Values, item1 \in Values : NewTransPair(item0, item1)
    \/ \E id \in 1..Len(heap), key \in -1..2, value \in Values :
          SetAt(id, key, value)
    \/ \E id \in 1..Len(heap) : Switch(id)

SpecPair == Init /\ [][NextPair]_vars

\* A TransList and the TransPairs of strings it may hold.
Next ==
    \/ \E item0 \in StrValues, item1 \in StrValues : NewTransPair(item0, item1)
    \/ \E id \in 1..Len(heap), key \in 0..1, value \in StrValues :
          SetAt(id, key, value)
    \/ \E id \in 1..Len(heap) : Switch(id)
    \/ \E args \in Iterables : NewTransList(args)
    \/ \E x \in Objects : ListAppend(x)
    \/ \E i \in -1..Len(tlist), x \in Objects : ListInsertAt(i, x)
    \/ \E other \in Iterables : ListExtend(other)
    \/ \E x \in Objects : ListRemove(x)
    \/ \E index \in -1..Len(tlist) : ListPop(index)
    \/ \E sentence \in StrValues, hint \in 0..3 :
          ListGetTranslation(sentence, hint)

Spec == Init /\ [][Next]_vars

\* A TransDatabase and its file.
NextDb ==
    \/ \E fl \in LangArgs \cup {NoneV}, sl \in LangArgs \cup {NoneV},
          kwargs \in KwArgs : DbConstruct(fl, sl, kwargs)
    \/ \E name \in Names, value \in ListArgs : DbSetItem(name, value)
    \/ \E name \in Names, value \in ListArgs : DbAdd(name, value)
    \/ \E index \in -1..(Len(db) + 1) : DbGetByIndex(index)
    \/ \E fl \in LangArgs, sl \in LangArgs : DbChangeLangAttrs(fl, sl)
    \/ DbSave
    \/ DbFromFile

SpecDb == Init /\ [][NextDb]_vars

(* ------------------------------- claims -------------------------------- *)

Range(f) == {f[i] : i \in DOMAIN f}

\* C1: no two elements of the TransList are value-equal pairs, whatever
\* TransList calls and TransPair mutations of its elements came before.
C1_NoDuplicates ==
    \A i, j \in 1..Len(tlist) : i < j => heap[tlist[i]] /= heap[tlist[j]]

\* C2: every TransPair holds exactly two non-empty strings, and
\* TransPair(a, b) raises TypeError when a or b is no string and
\* ValueError when a or b is the empty string.
C2_PairsValid ==
    /\ \A id \in 1..Len(heap) :
          /\ Len(heap[id]) = 2
          /\ \A k \in 1..2 : isinstance_str(heap[id][k]) /\ heap[id][k] /= S("")
    /\ last.op = "TransPair" =>
          LET nonstr == ~isinstance_str(last.arg) \/ ~isinstance_str(last.arg2)
              empty == last.arg = S("") \/ last.arg2 = S("")
          IN /\ nonstr /\ ~empty => last.err = "TypeError"
             /\ empty /\ ~nonstr => last.err = "ValueError"
             /\ nonstr /\ empty => last.err \in {"TypeError", "ValueError"}

LangIds(inf) == inf.language[2]

\* C3: the two language identifiers of info are distinct in every state,
\* and TransDatabase(fl, sl) with fl equal to sl (both given) raises
\* ValueError.
C3_LanguagesDistinct ==
    /\ LangIds(info)[1] /= LangIds(info)[2]
    /\ (last.op = "TransDatabase" /\ last.arg = last.arg2 /\ last.arg /= NoneV)
          => last.err = "ValueError"

\* C4: add(name, list) with a str name raises KeyError and leaves the dict
\* as it was when name is a key; otherwise name becomes the last key,
\* mapped to the list given, or to an empty TransList when none is given,
\* and the other entries stay.
C4_Add ==
    (/\ last.op = "add"
     /\ isinstance_str(last.arg)
     /\ (last.arg2 = NoneV \/ isinstance_TransList(last.arg2)))
    => IF KeyPos(last.pre, last.arg[2]) /= 0
       THEN last.err = "KeyError" /\ db = last.pre
       ELSE /\ last.err = "none"
            /\ db = Append(last.pre,
                           [name |-> last.arg[2],
                            value |-> IF last.arg2 = NoneV THEN <<>>
                                      ELSE last.arg2[2]])

\* C5: save to a .json path succeeds, and fromfile of a saved file
\* succeeds and gives the names in the same order, the same pairs in the
\* same order in each list and the same two language identifiers as the
\* database that was saved.
C5_JsonRoundTrip ==
    /\ last.op = "save" => last.err = "none"
    /\ (last.op = "fromfile" /\ file.content[1] /= "absent")
          => /\ last.err = "none"
             /\ db = file.db
             /\ LangIds(info) = LangIds(file.info)

\* C6: db[name] = value raises TypeError and leaves the dict as it was
\* when name is no str or value is no TransList; otherwise name maps to
\* value afterwards.
C6_SetItem ==
    last.op = "TransDatabase.setitem"
    => IF ~isinstance_str(last.arg) \/ ~isinstance_TransList(last.arg2)
       THEN last.err = "TypeError" /\ db = last.pre
       ELSE /\ last.err = "none"
            /\ KeyPos(db, last.arg[2]) /= 0
            /\ db[KeyPos(db, last.arg[2])].value = last.arg2[2]

\* C7: getbyindex(index) returns the TransList at position index of the
\* insertion order when 0 <= index < size, and raises IndexError for any
\* other index; it never returns None.
C7_GetByIndex ==
    last.op = "getbyindex"
    => IF last.idx \in 0..(Len(db) - 1)
       THEN last.err = "none" /\ last.ret = TL(db[last.idx + 1].value)
       ELSE last.err = "IndexError"

\* C8: append of a TransPair value-equal to an element raises KeyError and
\* leaves the list, its length and its elements in order, as it was;
\* append of any other TransPair puts it last and leaves the elements
\* before it in order.
C8_Append ==
    (last.op = "append" /\ isinstance_TransPair(last.arg))
    => IF \E i \in 1..Len(last.pre) : heap[last.pre[i]] = heap[last.arg[2]]
       THEN last.err = "KeyError" /\ tlist = last.pre
       ELSE last.err = "none" /\ tlist = last.pre \o <<last.arg[2]>>

\* C8 witness: a TransPair that is not in the list, equal in value to one
\* that is, was refused.
C8_Witness ==
    /\ last.op = "append"
    /\ isinstance_TransPair(last.arg)
    /\ last.arg[2] \notin Range(last.pre)
    /\ \E i \in 1..Len(last.pre) : heap[last.pre[i]] = heap[last.arg[2]]
    /\ last.err = "KeyError"

\* C9: pop(index) removes the element at index, -1 being the last, and
\* returns it; for an index out of range it raises IndexError and leaves
\* the list as it was.
C9_Pop ==
    last.op = "pop"
    => LET k == PyIndex(last.idx, Len(last.pre)) + 1
       IN IF k \in 1..Len(last.pre)
          THEN /\ last.err = "none"
               /\ last.ret = Ref(last.pre[k])
               /\ tlist = RemoveAt(last.pre, k)
          ELSE last.err = "IndexError" /\ tlist = last.pre

\* The positions of the pairs of the list whose element `side` is s.
Matches(side, s) == {i \in 1..Len(tlist) : heap[tlist[i]][side] = s}

\* The other element of the pair at the least of these positions; None
\* when there is none.
Counterpart(side, s) ==
    IF Matches(side, s) = {} THEN NoneV
    ELSE LET m == CHOOSE i \in Matches(side, s) :
                      \A j \in Matches(side, s) : i <= j
         IN heap[tlist[m]][3 - side]

\* C10: get_translation(sentence, hint) returns, with hint 1, the second
\* element of the first pair whose first element is the sentence; with
\* hint 2, the first element of the first pair whose second element is
\* the sentence; with hint 0, the hint 1 result if some first element is
\* the sentence, else the hint 2 result; None when nothing matches; and
\* the list is as it was.
C10_GetTranslation ==
    last.op = "get_translation"
    => /\ tlist = last.pre
       /\ last.idx = 1 => last.ret = Counterpart(1, last.arg)
       /\ last.idx = 2 => last.ret = Counterpart(2, last.arg)
       /\ last.idx = 0 =>
             last.ret = IF Matches(1, last.arg) /= {}
                        THEN Counterpart(1, last.arg)
                        ELSE Counterpart(2, last.arg)

\* C10 witness: a lookup with hint 0 where both sides match and the two
\* searches would answer differently.
C10_Witness ==
    /\ last.op = "get_translation"
    /\ last.idx = 0
    /\ Matches(1, last.arg) /= {}
    /\ Matches(2, last.arg) /= {}
    /\ Counterpart(1, last.arg) /= Counterpart(2, last.arg)
    /\ last.ret = Counterpart(1, last.arg)

====
